---- MODULE Spec2Model ----
(***************************************************************************)
(* County-mc-Countface: the dot-counting image pipeline.                   *)
(*                                                                         *)
(* src/src/image_processing.py holds the component functions (load_image,  *)
(* correct_illumination, apply_filters, adjust_contrast, count_dots) and   *)
(* src/src/pipeline.py the ProcessingPipeline object that stores their     *)
(* outputs by stage name.  The component functions are thin sequences of   *)
(* OpenCV calls; each OpenCV call is modelled by what it computes on       *)
(* 8-bit images (OpenCV 4.x semantics), including the cv2.error it raises  *)
(* on an empty source or a bad argument.                                   *)
(*                                                                         *)
(* Python values are records tagged with their type:                       *)
(*   None              [type |-> "NoneType"]                               *)
(*   a grey image      [type |-> "ndarray", ch |-> 1, px |-> rows of ints] *)
(*   a BGR image       [type |-> "ndarray", ch |-> 3, px |-> rows of       *)
(*                                                    <<b, g, r>>]         *)
(*   an int            [type |-> "int", v |-> n]                           *)
(*   a tuple           [type |-> "tuple", items |-> <<...>>]               *)
(* A call's outcome is [exc |-> "none", val |-> value] when it returns and *)
(* [exc |-> <exception class>, val |-> None] when it raises.               *)
(***************************************************************************)
EXTENDS Integers, Sequences, FiniteSets, TLC

(* ------------------------------ bounds -------------------------------- *)

\* Images are Height rows by Width columns.
Width == 2

Height == 2

\* size_threshold arguments range over -1 .. MaxSizeThreshold.
MaxSizeThreshold == 3

(* --------------------------- Python values ---------------------------- *)

None == [type |-> "NoneType"]

Gray(rows) == [type |-> "ndarray", ch |-> 1, px |-> rows]

Color(rows) == [type |-> "ndarray", ch |-> 3, px |-> rows]

PyInt(n) == [type |-> "int", v |-> n]

PyTuple(items) == [type |-> "tuple", items |-> items]

Returns(v) == [exc |-> "none", val |-> v]

Raises(e) == [exc |-> e, val |-> None]

Rows == 1..Height

Cols == 1..Width

Pos == Rows \X Cols

Min2(a, b) == IF a < b THEN a ELSE b

Max2(a, b) == IF a > b THEN a ELSE b

Abs(a) == IF a < 0 THEN -a ELSE a

RECURSIVE SetMin(_)
SetMin(S) ==
    LET x == CHOOSE y \in S : TRUE
    IN  IF S = {x} THEN x ELSE Min2(x, SetMin(S \ {x}))

RECURSIVE SetMax(_)
SetMax(S) ==
    LET x == CHOOSE y \in S : TRUE
    IN  IF S = {x} THEN x ELSE Max2(x, SetMax(S \ {x}))

\* The sum of the function f over the finite set S.
RECURSIVE SetSum(_, _)
SetSum(S, f) ==
    IF S = {} THEN 0
    ELSE LET x == CHOOSE y \in S : TRUE
         IN  f[x] + SetSum(S \ {x}, f)

\* saturate_cast<uchar> of an integer.
Saturate(v) == Max2(0, Min2(255, v))

\* cvRound of the non-negative rational num/den: to nearest, halves to even.
CvRound(num, den) ==
    LET q == num \div den
        r == num % den
    IN  IF 2 * r < den THEN q
        ELSE IF 2 * r > den THEN q + 1
        ELSE IF q % 2 = 0 THEN q ELSE q + 1

(* ------------------------- OpenCV primitives -------------------------- *)

\* BORDER_REFLECT_101 (OpenCV's default border): index i of an axis of
\* length n, for i at most one period outside 1..n.
Reflect101(i, n) ==
    IF n = 1 THEN 1
    ELSE IF i < 1 THEN 2 - i
    ELSE IF i > n THEN 2 * n - i
    ELSE i

\* The 1-D Gaussian kernel OpenCV uses for sigma = 0: {1} for size 1 and
\* {1/4, 1/2, 1/4} for size 3, as weights over offsets, in quarters.  The
\* kernel sizes the pipeline is called with here are at most 4, so 1 and 3
\* are the only sizes that pass ValidKernel.
GaussWeight(ksize, d) ==
    IF ksize = 1 THEN (IF d = 0 THEN 4 ELSE 0)
    ELSE IF d = 0 THEN 2 ELSE 1

GaussOffsets(ksize) == IF ksize = 1 THEN {0} ELSE {-1, 0, 1}

\* A kernel size cv2.GaussianBlur accepts with sigma = 0: a positive odd int.
ValidKernel(ksize) == ksize.type = "int" /\ ksize.v > 0 /\ ksize.v % 2 = 1

\* cv2.GaussianBlur(src, (ksize, ksize), 0) on a grey image: the separable
\* kernel applied in fixed point and rounded once, halves up.
BlurPixels(px, ksize) ==
    [r \in Rows |-> [c \in Cols |->
        LET offs == GaussOffsets(ksize) \X GaussOffsets(ksize)
            term == [o \in offs |->
                        GaussWeight(ksize, o[1]) * GaussWeight(ksize, o[2])
                          * px[Reflect101(r + o[1], Height)][Reflect101(c + o[2], Width)]]
        IN  (SetSum(offs, term) + 8) \div 16]]

\* cv2.GaussianBlur: the kernel size is parsed first (a None in the size
\* tuple is rejected), then the source must not be empty, then the size must
\* be positive and odd.
GaussianBlur(src, ksize) ==
    IF ksize.type # "int" THEN Raises("cv2.error")
    ELSE IF src = None THEN Raises("cv2.error")
    ELSE IF ~ValidKernel(ksize) THEN Raises("cv2.error")
    ELSE Returns(Gray(BlurPixels(src.px, ksize.v)))

\* cv2.subtract on two grey images: saturating per-pixel difference.
Subtract(a, b) ==
    Gray([r \in Rows |-> [c \in Cols |-> Saturate(a.px[r][c] - b.px[r][c])]])

PixelSet(img) == {img.px[p[1]][p[2]] : p \in Pos}

\* cv2.normalize(src, None, 0, 255, NORM_MINMAX): min-max stretch to 0..255;
\* a flat image has scale 0 and becomes all zero.
Normalize(img) ==
    LET lo == SetMin(PixelSet(img))
        hi == SetMax(PixelSet(img))
    IN  Gray([r \in Rows |-> [c \in Cols |->
            IF hi = lo THEN 0
            ELSE Saturate(CvRound((img.px[r][c] - lo) * 255, hi - lo))]])

\* One pixel of cv2.convertScaleAbs(src, alpha = an/ad, beta):
\* saturate_cast<uchar>(|src * alpha + beta|).
ScaleAbsPixel(v, an, ad, beta) == Saturate(CvRound(Abs(v * an + beta * ad), ad))

ConvertScaleAbs(img, an, ad, beta) ==
    Gray([r \in Rows |-> [c \in Cols |-> ScaleAbsPixel(img.px[r][c], an, ad, beta)]])

\* ThresholdPixel with the comparison written `>=`.
ThresholdPixelInclusive(v, thresh) == IF v >= thresh THEN 255 ELSE 0

\* One pixel of cv2.threshold(src, thresh, 255, cv2.THRESH_BINARY).
ThresholdPixel(v, thresh) == IF v > thresh THEN 255 ELSE 0

\* cv2.threshold(src, thresh, 255, cv2.THRESH_BINARY): thresh must be a
\* number and the source must not be empty.
Threshold(src, thresh) ==
    IF thresh.type # "int" THEN Raises("cv2.error")
    ELSE IF src = None THEN Raises("cv2.error")
    ELSE Returns(Gray([r \in Rows |-> [c \in Cols |->
                    ThresholdPixel(src.px[r][c], thresh.v)]]))

\* The in-image pixels under a k x k rectangular structuring element
\* anchored at its centre (k \div 2); the border is ignored by both erosion
\* and dilation (morphologyDefaultBorderValue).
Window(r, c, k) ==
    {p \in Pos : /\ p[1] - r \in (0 - (k \div 2))..(k - 1 - (k \div 2))
                 /\ p[2] - c \in (0 - (k \div 2))..(k - 1 - (k \div 2))}

Erode(px, k) ==
    [r \in Rows |-> [c \in Cols |-> SetMin({px[p[1]][p[2]] : p \in Window(r, c, k)})]]

\* Dilation reflects the structuring element through its anchor.
Dilate(px, k) ==
    [r \in Rows |-> [c \in Cols |->
        SetMax({px[p[1]][p[2]] : p \in {q \in Pos : <<r, c>> \in Window(q[1], q[2], k)}})]]

\* cv2.morphologyEx(src, cv2.MORPH_OPEN, np.ones((k, k))): erosion, then
\* dilation.
MorphOpen(img, k) == Gray(Dilate(Erode(img.px, k), k))

\* cv2.cvtColor(src, cv2.COLOR_GRAY2BGR).
Gray2BGR(img) ==
    Color([r \in Rows |-> [c \in Cols |-> <<img.px[r][c], img.px[r][c], img.px[r][c]>>]])

\* Adjacent with the connectivity argument ignored: always 8-neighbour.
AdjacentIgnoringConnectivity(p, q, connectivity) ==
    Max2(Abs(p[1] - q[1]), Abs(p[2] - q[2])) = 1

\* Pixels p and q are neighbours under 4-connectivity (a shared edge) or
\* 8-connectivity (a shared edge or corner).
Adjacent(p, q, connectivity) ==
    LET dr == Abs(p[1] - q[1])
        dc == Abs(p[2] - q[2])
    IN  IF connectivity = 4 THEN dr + dc = 1
        ELSE Max2(dr, dc) = 1

\* The connected component of the foreground fg that contains the set S.
RECURSIVE Grow(_, _, _)
Grow(S, fg, connectivity) ==
    LET N == S \cup {q \in fg : \E p \in S : Adjacent(p, q, connectivity)}
    IN  IF N = S THEN S ELSE Grow(N, fg, connectivity)

\* Raster order of pixels: by row, then by column.
RasterBefore(p, q) == p[1] < q[1] \/ (p[1] = q[1] /\ p[2] < q[2])

FirstPixel(S) == CHOOSE p \in S : \A q \in S : p = q \/ RasterBefore(p, q)

\* The sequence of the sets in C, ordered by each set's first pixel.
RECURSIVE InLabelOrder(_)
InLabelOrder(C) ==
    IF C = {} THEN << >>
    ELSE LET first == CHOOSE S \in C :
                        \A T \in C : S = T \/ RasterBefore(FirstPixel(S), FirstPixel(T))
         IN  <<first>> \o InLabelOrder(C \ {first})

\* One row of the stats and centroids that connectedComponentsWithStats
\* returns for the pixel set S: its area and the sums of its 0-based x
\* (column) and y (row) coordinates, the centroid being (sx/area, sy/area).
StatOf(S) ==
    [area |-> Cardinality(S),
     sx   |-> SetSum(S, [p \in S |-> p[2] - 1]),
     sy   |-> SetSum(S, [p \in S |-> p[1] - 1])]

\* cv2.connectedComponentsWithStats(binary, connectivity, cv2.CV_32S): the
\* stats rows, label 0 (the background, every zero pixel) first, then one
\* row per maximal connected set of non-zero pixels.  connectivity must be
\* 4 or 8.
ConnectedComponentsWithStats(binary, connectivity) ==
    IF connectivity \notin {4, 8} THEN Raises("cv2.error")
    ELSE LET fg    == {p \in Pos : binary.px[p[1]][p[2]] # 0}
             blobs == {Grow({p}, fg, connectivity) : p \in fg}
             order == InLabelOrder(blobs)
         IN  Returns(<<StatOf(Pos \ fg)>> \o [i \in 1..Len(order) |-> StatOf(order[i])])

\* cv2.rectangle(img, (cx - 1, cy - 1), (cx + 1, cy + 1), (255, 0, 0), -1) on
\* a BGR image: the filled 3x3 square around 0-based (cx, cy), clipped.
Rectangle(img, cx, cy) ==
    Color([r \in Rows |-> [c \in Cols |->
        IF Abs((c - 1) - cx) <= 1 /\ Abs((r - 1) - cy) <= 1
        THEN <<255, 0, 0>>
        ELSE img.px[r][c]]])

(* ------------------- image_processing.py components ------------------- *)

\* The files the pipeline is pointed at: an unreadable path, a readable file
\* that is not an image, and two grey images.
Paths == {"missing.tif", "notes.txt", "a.tif", "b.tif"}

\* a.tif: a bright diagonal on black.
ImageA == Gray([r \in Rows |-> [c \in Cols |-> IF r = c THEN 255 ELSE 0]])

\* b.tif: a bright first column on a dim gradient background.
ImageB == Gray([r \in Rows |-> [c \in Cols |-> IF c = 1 THEN 200 ELSE 20 * r]])

\* load_image: open() raises on an unreadable path; cv2.imread(path, 0)
\* returns None for a file it cannot decode.
load_image(file_path) ==
    IF file_path = "missing.tif" THEN Raises("FileNotFoundError")
    ELSE IF file_path = "notes.txt" THEN Returns(None)
    ELSE IF file_path = "a.tif" THEN Returns(ImageA)
    ELSE Returns(ImageB)

\* correct_illumination(image, blur_kernel_size, brightness_offset):
\* blur, subtract, normalize, convertScaleAbs(alpha=1, beta=offset).
correct_illumination(image, blur_kernel_size, brightness_offset) ==
    LET background == GaussianBlur(image, blur_kernel_size)
    IN  IF background.exc # "none" THEN background
        ELSE Returns(ConvertScaleAbs(Normalize(Subtract(image, background.val)),
                                     1, 1, brightness_offset.v))

\* np.ones((k, k), np.uint8) needs an int k >= 0; an empty kernel (k = 0)
\* makes morphologyEx fall back to its 3x3 default.
MorphologyOpen(image, kernel_size) ==
    IF kernel_size.type # "int" THEN Raises("TypeError")
    ELSE IF kernel_size.v < 0 THEN Raises("ValueError")
    ELSE IF image = None THEN Raises("cv2.error")
    ELSE Returns(MorphOpen(image, IF kernel_size.v = 0 THEN 3 ELSE kernel_size.v))

\* apply_filters(image, filter_params): the three keys are tested with
\* `in`, so a key that is present with the value None is still applied.
apply_filters(image, filter_params) ==
    LET keys    == DOMAIN filter_params
        blurred == IF "gaussian_blur" \in keys
                   THEN GaussianBlur(image, filter_params["gaussian_blur"])
                   ELSE Returns(image)
        binary  == IF blurred.exc # "none" THEN blurred
                   ELSE IF "threshold" \in keys
                   THEN Threshold(blurred.val, filter_params["threshold"])
                   ELSE blurred
        opened  == IF binary.exc # "none" THEN binary
                   ELSE IF "morph_open" \in keys
                   THEN MorphologyOpen(binary.val, filter_params["morph_open"])
                   ELSE binary
    IN  opened

\* alpha is a Python float, held as the fraction num/den (den > 0).
PyFloat(num, den) == [type |-> "float", num |-> num, den |-> den]

\* adjust_contrast(image, alpha): cv2.convertScaleAbs(image, alpha, beta=0).
\* The set of possible outcomes: convertScaleAbs has no check of its own on
\* an empty source, so for a None image a build either hands back None or
\* raises cv2.error; for an image the result is determined.
adjust_contrast(image, alpha) ==
    IF image = None THEN {Returns(None), Raises("cv2.error")}
    ELSE {Returns(ConvertScaleAbs(image, alpha.num, alpha.den, 0))}

\* DotLoop with the size test written `area > size_threshold`.
RECURSIVE DotLoopStrict(_, _, _, _)
DotLoopStrict(stats, i, size_threshold, acc) ==
    IF i > Len(stats) THEN acc
    ELSE IF i = 1 THEN DotLoopStrict(stats, i + 1, size_threshold, acc)
    ELSE LET area     == stats[i].area
             center_x == stats[i].sx \div area
             center_y == stats[i].sy \div area
         IN  IF area > size_threshold
             THEN DotLoopStrict(stats, i + 1, size_threshold,
                          [num_dots         |-> acc.num_dots + 1,
                           count_image      |-> Rectangle(acc.count_image, center_x, center_y),
                           original_colored |-> Rectangle(acc.original_colored,
                                                          center_x, center_y)])
             ELSE DotLoopStrict(stats, i + 1, size_threshold, acc)

\* The loop of count_dots over enumerate(stats), from 1-based index i on:
\* the first row (Python's i == 0, the background) is skipped, a row with
\* area >= size_threshold is counted and marked at int(centroid) on both
\* images.
RECURSIVE DotLoop(_, _, _, _)
DotLoop(stats, i, size_threshold, acc) ==
    IF i > Len(stats) THEN acc
    ELSE IF i = 1 THEN DotLoop(stats, i + 1, size_threshold, acc)
    ELSE LET area     == stats[i].area
             center_x == stats[i].sx \div area
             center_y == stats[i].sy \div area
         IN  IF area >= size_threshold
             THEN DotLoop(stats, i + 1, size_threshold,
                          [num_dots         |-> acc.num_dots + 1,
                           count_image      |-> Rectangle(acc.count_image, center_x, center_y),
                           original_colored |-> Rectangle(acc.original_colored,
                                                          center_x, center_y)])
             ELSE DotLoop(stats, i + 1, size_threshold, acc)

\* count_dots(original_image, processed_image, size_threshold, connectivity):
\* re-binarize at 127, label, colour both images, run the loop and return
\* the 3-tuple (num_dots, count_image, original_colored).
count_dots(original_image, processed_image, size_threshold, connectivity) ==
    LET binary == Threshold(processed_image, PyInt(127))
        cc     == IF binary.exc # "none" THEN binary
                  ELSE ConnectedComponentsWithStats(binary.val, connectivity.v)
    IN  IF cc.exc # "none" THEN cc
        ELSE IF original_image = None THEN Raises("AttributeError")
        ELSE LET start == [num_dots         |-> 0,
                           count_image      |-> Gray2BGR(processed_image),
                           original_colored |-> IF original_image.ch = 1
                                                THEN Gray2BGR(original_image)
                                                ELSE original_image]
                 done  == DotLoop(cc.val, 1, size_threshold.v, start)
             IN  Returns(PyTuple(<<PyInt(done.num_dots), done.count_image,
                                   done.original_colored>>))

(* --------------------- pipeline.py: ProcessingPipeline ---------------- *)

VARIABLES
    images,     \* self.images: stage name -> image or None
    dot_count,  \* self.dot_count
    centroids,  \* self.centroids
    before,     \* the object's fields as they were when the last call began
    call,       \* the last method called on the pipeline, with its arguments
    raised,     \* the exception class that call raised, or "none"
    returned    \* the value that call returned (None when it raised)

vars == <<images, dot_count, centroids, before, call, raised, returned>>

Stages == {"original", "corrected", "filtered", "contrast", "dots_counted",
           "original_with_dots"}

\* The object's fields as one value.
Self == [images |-> images, dot_count |-> dot_count, centroids |-> centroids]

\* ProcessingPipeline.__init__.
Fresh ==
    [images    |-> [original |-> None, corrected |-> None, filtered |-> None,
                    contrast |-> None, dots_counted |-> None,
                    original_with_dots |-> None],
     dot_count |-> None,
     centroids |-> None]

\* A method's outcome: the object afterwards, the exception it raised (or
\* "none") and the value it returned.
Outcome(self, exc, val) == [self |-> self, exc |-> exc, val |-> val]

\* self.images[stage] = value.
SetStage(self, stage, value) == [self EXCEPT !.images[stage] = value]

\* clear_pipeline that resets the results but leaves the loaded image.
clear_pipeline_keeping_original(self) ==
    {Outcome([Fresh EXCEPT !.images["original"] = self.images["original"]],
             "none", None)}

\* clear_pipeline(self).
clear_pipeline(self) ==
    {Outcome([self EXCEPT
                !.images    = [original |-> None, corrected |-> None, filtered |-> None,
                               contrast |-> None, dots_counted |-> None,
                               original_with_dots |-> None],
                !.dot_count = None,
                !.centroids = None],
             "none", None)}

\* load_image_image(self, image).
load_image_image(self, image) == {Outcome(SetStage(self, "original", image), "none", None)}

\* load_image_filepath(self, file_path): the stage is assigned only when
\* load_image returns.
load_image_filepath(self, file_path) ==
    LET r == load_image(file_path)
    IN  IF r.exc # "none" THEN {Outcome(self, r.exc, None)}
        ELSE {Outcome(SetStage(self, "original", r.val), "none", None)}

\* correct_illumination(self, blur_kernel_size, brightness_offset).
pipeline_correct_illumination(self, blur_kernel_size, brightness_offset) ==
    LET r == correct_illumination(self.images["original"], blur_kernel_size,
                                  brightness_offset)
    IN  IF r.exc # "none" THEN {Outcome(self, r.exc, None)}
        ELSE {Outcome(SetStage(self, "corrected", r.val), "none", None)}

\* apply_filters(self, gaussian_blur, threshold, morph_open): all three
\* keys are always put in filter_params, whatever their values.
pipeline_apply_filters(self, gaussian_blur, threshold, morph_open) ==
    LET filter_params == [gaussian_blur |-> gaussian_blur,
                          threshold     |-> threshold,
                          morph_open    |-> morph_open]
        r == apply_filters(self.images["corrected"], filter_params)
    IN  IF r.exc # "none" THEN {Outcome(self, r.exc, None)}
        ELSE {Outcome(SetStage(self, "filtered", r.val), "none", None)}

\* adjust_contrast(self, alpha).
pipeline_adjust_contrast(self, alpha) ==
    {IF r.exc # "none" THEN Outcome(self, r.exc, None)
     ELSE Outcome(SetStage(self, "contrast", r.val), "none", None)
        : r \in adjust_contrast(self.images["filtered"], alpha)}

\* count_dots written with one indexed assignment per output: the outputs
\* that exist are stored before the missing one raises IndexError.
UnpackFourByIndex(self, tuple) ==
    LET n      == Len(tuple.items)
        first  == IF n >= 1 THEN [self EXCEPT !.dot_count = tuple.items[1]] ELSE self
        second == IF n >= 2 THEN SetStage(first, "dots_counted", tuple.items[2]) ELSE first
        third  == IF n >= 3 THEN SetStage(second, "original_with_dots", tuple.items[3])
                  ELSE second
    IN  IF n >= 4 THEN Outcome([third EXCEPT !.centroids = tuple.items[4]], "none", None)
        ELSE Outcome(third, "IndexError", None)

\* The tuple-unpacking assignment of count_dots: four targets; a tuple of
\* any other length raises ValueError before any target is assigned.
UnpackFour(self, tuple) ==
    IF Len(tuple.items) # 4 THEN Outcome(self, "ValueError", None)
    ELSE Outcome([images    |-> [self.images EXCEPT
                                    !["dots_counted"] = tuple.items[2],
                                    !["original_with_dots"] = tuple.items[3]],
                  dot_count |-> tuple.items[1],
                  centroids |-> tuple.items[4]],
                 "none", None)

\* count_dots(self, size_threshold, connectivity).
pipeline_count_dots(self, size_threshold, connectivity) ==
    LET r == count_dots(self.images["original"], self.images["contrast"],
                        size_threshold, connectivity)
    IN  IF r.exc # "none" THEN {Outcome(self, r.exc, None)}
        ELSE {UnpackFour(self, r.val)}

\* get_stage_output written as self.images[stage]: KeyError on other names.
get_stage_output_by_subscript(self, stage) ==
    {IF stage \in DOMAIN self.images THEN Outcome(self, "none", self.images[stage])
     ELSE Outcome(self, "KeyError", None)}

\* get_stage_output(self, stage): self.images.get(stage, None).
get_stage_output(self, stage) ==
    {Outcome(self, "none", IF stage \in DOMAIN self.images THEN self.images[stage]
                           ELSE None)}

\* run_pipeline(self, file_path, ..., connectivity): the five stage methods
\* in order.  Then(outs, next) is statement sequencing: `next` runs after
\* each outcome in outs that did not raise, and an outcome that raised ends
\* the method.
run_pipeline(self, a) ==
    LET Then(outs, next(_)) ==
            UNION {IF o.exc # "none" THEN {o} ELSE next(o.self) : o \in outs}
        s1 == load_image_filepath(self, a.file_path)
        s2 == Then(s1, LAMBDA x : pipeline_correct_illumination(x, a.blur_kernel_size,
                                                                a.brightness_offset))
        s3 == Then(s2, LAMBDA x : pipeline_apply_filters(x, a.gaussian_blur, a.threshold,
                                                         a.morph_open))
        s4 == Then(s3, LAMBDA x : pipeline_adjust_contrast(x, a.alpha))
        s5 == Then(s4, LAMBDA x : pipeline_count_dots(x, a.size_threshold, a.connectivity))
    IN  s5

(* ------------------------------ arguments ----------------------------- *)

BlurKernelSizes == {PyInt(2), PyInt(3)}

BrightnessOffsets == {PyInt(-30), PyInt(30)}

GaussianBlurs == {None, PyInt(1), PyInt(4)}

Thresholds == {None, PyInt(127)}

MorphOpens == {None, PyInt(1)}

Alphas == {PyFloat(0, 1), PyFloat(3, 2)}

SizeThresholds == {PyInt(n) : n \in (0 - 1)..MaxSizeThreshold}

Connectivities == {PyInt(4), PyInt(6), PyInt(8)}

StageNames == Stages \cup {"labels"}

AllRunArgs ==
    [file_path : Paths, blur_kernel_size : BlurKernelSizes,
     brightness_offset : BrightnessOffsets, gaussian_blur : GaussianBlurs,
     threshold : Thresholds, morph_open : MorphOpens, alpha : Alphas,
     size_threshold : SizeThresholds, connectivity : Connectivities]

\* The example parameters of pipeline.py's __main__ block, with the kernel
\* sizes and the size threshold scaled down to the model's images.
ExampleArgs ==
    [file_path |-> "a.tif", blur_kernel_size |-> PyInt(3),
     brightness_offset |-> PyInt(30), gaussian_blur |-> PyInt(1),
     threshold |-> PyInt(127), morph_open |-> PyInt(1), alpha |-> PyFloat(3, 2),
     size_threshold |-> PyInt(1), connectivity |-> PyInt(4)]

\* run_pipeline is called with the example parameters or with any one of
\* them changed.
RunArgs ==
    {a \in AllRunArgs : Cardinality({k \in DOMAIN a : a[k] # ExampleArgs[k]}) <= 1}

(* ------------------------------- actions ------------------------------ *)

Init ==
    /\ images = Fresh.images
    /\ dot_count = Fresh.dot_count
    /\ centroids = Fresh.centroids
    /\ before = Fresh
    /\ call = [op |-> "__init__", args |-> << >>]
    /\ raised = "none"
    /\ returned = None

\* The caller invokes method op with args and observes one of its outcomes.
Invoke(op, args, outs) ==
    \E o \in outs :
        /\ images' = o.self.images
        /\ dot_count' = o.self.dot_count
        /\ centroids' = o.self.centroids
        /\ before' = Self
        /\ call' = [op |-> op, args |-> args]
        /\ raised' = o.exc
        /\ returned' = o.val

ClearPipeline == Invoke("clear_pipeline", << >>, clear_pipeline(Self))

LoadImageImage ==
    \E image \in {None, ImageA, ImageB} :
        Invoke("load_image_image", <<image>>, load_image_image(Self, image))

LoadImageFilepath ==
    \E file_path \in Paths :
        Invoke("load_image_filepath", <<file_path>>, load_image_filepath(Self, file_path))

CorrectIllumination ==
    \E k \in BlurKernelSizes, b \in BrightnessOffsets :
        Invoke("correct_illumination", <<k, b>>, pipeline_correct_illumination(Self, k, b))

ApplyFilters ==
    \E g \in GaussianBlurs, t \in Thresholds, m \in MorphOpens :
        Invoke("apply_filters", <<g, t, m>>, pipeline_apply_filters(Self, g, t, m))

AdjustContrast ==
    \E alpha \in Alphas :
        Invoke("adjust_contrast", <<alpha>>, pipeline_adjust_contrast(Self, alpha))

CountDots ==
    \E s \in SizeThresholds, c \in Connectivities :
        Invoke("count_dots", <<s, c>>, pipeline_count_dots(Self, s, c))

GetStageOutput ==
    \E stage \in StageNames :
        Invoke("get_stage_output", <<stage>>, get_stage_output(Self, stage))

RunPipeline ==
    \E a \in RunArgs : Invoke("run_pipeline", <<a>>, run_pipeline(Self, a))

Next ==
    \/ ClearPipeline
    \/ LoadImageImage
    \/ LoadImageFilepath
    \/ CorrectIllumination
    \/ ApplyFilters
    \/ AdjustContrast
    \/ CountDots
    \/ GetStageOutput
    \/ RunPipeline

Spec == Init /\ [][Next]_vars

(* ---------------- the component functions called directly ------------- *)

\* Every grey image whose pixels are drawn from the set V.
ImagesOver(V) == {Gray(px) : px \in [Rows -> [Cols -> V]]}

\* Processed images handed to count_dots: the binary masks, and the images
\* that straddle its internal threshold of 127.
ProcessedImages == ImagesOver({0, 255}) \cup ImagesOver({127, 128})

\* Direct calls of image_processing.count_dots, as in its __main__ block.
CountDotsCalls ==
    {[op |-> "image_processing.count_dots", args |-> <<o, p, s, c>>] :
        o \in {None, ImageA}, p \in ProcessedImages \cup {None},
        s \in SizeThresholds, c \in Connectivities}

\* The 8-bit pixel values.
PixelValues == 0..255

\* The image whose pixels all have the value v.
Flat(v) == Gray([r \in Rows |-> [c \in Cols |-> v]])

\* Direct calls of image_processing.apply_filters with a filter_params dict
\* that holds only the 'threshold' key, on every flat image and with every
\* threshold in 0..255.
ThresholdCalls ==
    {[op |-> "image_processing.apply_filters",
      args |-> <<Flat(v), [threshold |-> PyInt(t)]>>] :
        v \in PixelValues, t \in PixelValues}

\* The possible outcomes of a direct component call.
ComponentOutcomes(c) ==
    IF c.op = "image_processing.count_dots"
    THEN {count_dots(c.args[1], c.args[2], c.args[3], c.args[4])}
    ELSE {apply_filters(c.args[1], c.args[2])}

InitComponents ==
    /\ images = Fresh.images
    /\ dot_count = Fresh.dot_count
    /\ centroids = Fresh.centroids
    /\ before = Fresh
    /\ call \in CountDotsCalls
    /\ raised = "pending"
    /\ returned = None

\* The pending call runs to completion; no pipeline object is involved.
Evaluate ==
    /\ raised = "pending"
    /\ \E r \in ComponentOutcomes(call) :
        /\ raised' = r.exc
        /\ returned' = r.val
    /\ UNCHANGED <<images, dot_count, centroids, before, call>>

NextComponents == Evaluate

SpecComponents == InitComponents /\ [][NextComponents]_vars

\* The filter chain called directly with a threshold alone.
InitFilters ==
    /\ images = Fresh.images
    /\ dot_count = Fresh.dot_count
    /\ centroids = Fresh.centroids
    /\ before = Fresh
    /\ call \in ThresholdCalls
    /\ raised = "pending"
    /\ returned = None

SpecFilters == InitFilters /\ [][NextComponents]_vars

(* ------------------------------ properties ---------------------------- *)

Populated(self, stage) == self.images[stage] # None

\* The constraints the parameters of run_pipeline are documented to meet,
\* with a file that holds an image.
ValidRunArgs(a) ==
    /\ a.file_path \in {"a.tif", "b.tif"}
    /\ a.blur_kernel_size.v >= 1 /\ a.blur_kernel_size.v % 2 = 1
    /\ a.gaussian_blur # None /\ a.gaussian_blur.v >= 1 /\ a.gaussian_blur.v % 2 = 1
    /\ a.threshold # None /\ a.threshold.v \in 0..255
    /\ a.morph_open # None /\ a.morph_open.v >= 1 /\ a.morph_open.v % 2 = 1
    /\ a.alpha.num > 0
    /\ a.size_threshold.v >= 0
    /\ a.connectivity.v \in {4, 8}

\* C1: a run_pipeline call in which any stage fails leaves the stage mapping,
\* dot_count and centroids exactly as they were before the call.
C1_RunPipelineAtomicOnFailure ==
    (call.op = "run_pipeline" /\ raised # "none") => Self = before

\* C2: run_pipeline on a loadable image with parameters that all satisfy
\* their constraints completes without error with all six stages populated
\* and the dot count and centroids stored.
C2_RunPipelineReachesCounted ==
    (call.op = "run_pipeline" /\ ValidRunArgs(call.args[1])) =>
        /\ raised = "none"
        /\ \A s \in Stages : Populated(Self, s)
        /\ dot_count # None
        /\ centroids # None

\* The stage each transition consumes.
Consumes ==
    [correct_illumination |-> "original", apply_filters |-> "corrected",
     adjust_contrast |-> "filtered", count_dots |-> "contrast"]

\* C3: a transition invoked while the stage it consumes is unpopulated fails
\* with StageNotReady; so does apply_filters on a freshly constructed
\* pipeline.
C3_StageNotReady ==
    /\ (call.op \in DOMAIN Consumes /\ ~Populated(before, Consumes[call.op]))
            => raised = "StageNotReady"
    /\ (call.op = "apply_filters" /\ before = Fresh) => raised = "StageNotReady"

\* C4: the populated stages always form a prefix of the chain original,
\* corrected, filtered, contrast, counted (dots_counted and
\* original_with_dots together).
C4_PopulatedStagesFormPrefix ==
    /\ Populated(Self, "corrected") => Populated(Self, "original")
    /\ Populated(Self, "filtered") => Populated(Self, "corrected")
    /\ Populated(Self, "contrast") => Populated(Self, "filtered")
    /\ Populated(Self, "dots_counted") => Populated(Self, "contrast")
    /\ Populated(Self, "dots_counted") <=> Populated(Self, "original_with_dots")

\* C5: get_stage_output(name) never raises and never changes the pipeline;
\* it returns the stored buffer when name is a populated stage and None when
\* the stage is unpopulated or the name is not a stage.
C5_GetStageOutputTotal ==
    call.op = "get_stage_output" =>
        /\ raised = "none"
        /\ Self = before
        /\ returned = IF call.args[1] \in Stages /\ Populated(before, call.args[1])
                      THEN before.images[call.args[1]]
                      ELSE None

\* C5 witness: a populated stage was asked for and its buffer came back.
C5_Witness ==
    /\ call.op = "get_stage_output"
    /\ call.args[1] = "filtered"
    /\ returned # None

\* C6: clear_pipeline, from any state, leaves all six stages unpopulated and
\* dot_count and centroids unset, as in a freshly constructed pipeline.
C6_ClearResets ==
    call.op = "clear_pipeline" => (raised = "none" /\ Self = Fresh)

\* C6 witness: clear_pipeline was called on a pipeline holding four stages.
C6_Witness ==
    /\ call.op = "clear_pipeline"
    /\ \A s \in {"original", "corrected", "filtered", "contrast"} : Populated(before, s)
    /\ Self = Fresh

\* C7: whenever a dot-count result is stored the count equals the length of
\* the stored centroid sequence, and count_dots, given the two images it
\* reads and a connectivity of 4 or 8, stores a count with its centroids.
C7_CountConsistency ==
    /\ dot_count # None => (centroids # None /\ dot_count.v = Len(centroids.items))
    /\ ( /\ call.op = "count_dots"
         /\ Populated(before, "original")
         /\ Populated(before, "contrast")
         /\ call.args[2].v \in {4, 8} )
       => (raised = "none" /\ dot_count # None /\ centroids # None)

\* The blobs of a processed image: the maximal connected sets of its pixels
\* above 127.
Blobs(processed, connectivity) ==
    LET fg == {p \in Pos : processed.px[p[1]][p[2]] > 127}
    IN  {Grow({p}, fg, connectivity) : p \in fg}

CountDotsReturned == call.op = "image_processing.count_dots" /\ raised = "none"

\* C8: the count returned by count_dots is the number of non-background
\* blobs with area >= size_threshold (a blob of area exactly size_threshold
\* counts, one of area size_threshold - 1 does not).
C8_ThresholdInclusive ==
    CountDotsReturned =>
        returned.items[1].v =
            Cardinality({B \in Blobs(call.args[2], call.args[4].v) :
                            Cardinality(B) >= call.args[3].v})

\* C8 witness: a single blob whose area is exactly size_threshold was
\* counted.
C8_Witness ==
    /\ CountDotsReturned
    /\ call.args[3].v >= 2
    /\ \E B \in Blobs(call.args[2], call.args[4].v) : Cardinality(B) = call.args[3].v
    /\ returned.items[1].v = 1

\* The foreground is exactly two pixels that share a corner and no edge.
TwoDiagonalPixels(processed) ==
    LET fg == {p \in Pos : processed.px[p[1]][p[2]] > 127}
    IN  \E p, q \in fg :
            /\ fg = {p, q}
            /\ Abs(p[1] - q[1]) = 1
            /\ Abs(p[2] - q[2]) = 1

\* C9: on a mask whose foreground is two diagonally adjacent pixels, with
\* size_threshold <= 1, count_dots counts 1 under connectivity 8 and 2 under
\* connectivity 4.
C9_ConnectivitySensitivity ==
    (CountDotsReturned /\ TwoDiagonalPixels(call.args[2]) /\ call.args[3].v <= 1) =>
        returned.items[1].v = IF call.args[4].v = 8 THEN 1 ELSE 2

\* C9 witness: two diagonal pixels stayed two blobs under connectivity 4.
C9_Witness ==
    /\ CountDotsReturned
    /\ TwoDiagonalPixels(call.args[2])
    /\ call.args[3].v = 1
    /\ call.args[4].v = 4
    /\ returned.items[1].v = 2

\* C10: an even gaussian_blur makes the filter stage fail with
\* InvalidParameter, and no filtered buffer is stored.
C10_EvenBlurInvalidParameter ==
    ( /\ call.op = "apply_filters"
      /\ call.args[1] # None
      /\ call.args[1].v % 2 = 0 )
    => (raised = "InvalidParameter" /\ images["filtered"] = before.images["filtered"])

\* C11: adjust_contrast with alpha <= 0 fails with InvalidParameter, returns
\* no output buffer and leaves the 'contrast' stage as it was, whatever the
\* filtered image.
C11_NonPositiveAlphaInvalidParameter ==
    ( /\ call.op = "adjust_contrast"
      /\ call.args[1].num <= 0
      /\ Populated(before, "filtered") )
    => (raised = "InvalidParameter" /\ images["contrast"] = before.images["contrast"])

ThresholdReturned == call.op = "image_processing.apply_filters" /\ raised = "none"

\* C12 (as claimed): the thresholded pixel is 255 if p >= t and 0 otherwise,
\* for every pixel value p and threshold t in 0..255.
C12_ThresholdInclusiveAsClaimed ==
    ThresholdReturned =>
        \A p \in Pos :
            returned.px[p[1]][p[2]] =
                IF call.args[1].px[p[1]][p[2]] >= call.args[2]["threshold"].v
                THEN 255 ELSE 0

\* C12 (amended): the thresholded pixel is 255 if p > t and 0 otherwise, for
\* every pixel value p and threshold t in 0..255; a pixel equal to the
\* threshold becomes 0.
C12_ThresholdStrict ==
    ThresholdReturned =>
        \A p \in Pos :
            returned.px[p[1]][p[2]] =
                IF call.args[1].px[p[1]][p[2]] > call.args[2]["threshold"].v
                THEN 255 ELSE 0

\* C12 witness: a pixel exactly at the threshold came out 0.
C12_Witness ==
    /\ ThresholdReturned
    /\ call.args[2]["threshold"].v = 127
    /\ call.args[1].px[1][1] = 127
    /\ returned.px[1][1] = 0

\* The filter parameters that are not None, as a dict holding only those keys.
PresentParams(gaussian_blur, threshold, morph_open) ==
    LET given == [gaussian_blur |-> gaussian_blur,
                  threshold     |-> threshold,
                  morph_open    |-> morph_open]
    IN  [k \in {k \in DOMAIN given : given[k] # None} |-> given[k]]

\* C13: when the orchestrator's apply_filters is given None for gaussian_blur,
\* threshold or morph_open, that step is skipped, the remaining steps run in
\* the order blur, threshold, opening on the 'corrected' image, and with all
\* three None 'filtered' equals 'corrected'.
C13_AbsentOptionsAreNoOps ==
    ( /\ call.op = "apply_filters"
      /\ Populated(before, "corrected")
      /\ \E i \in 1..3 : call.args[i] = None )
    => LET expected == apply_filters(before.images["corrected"],
                           PresentParams(call.args[1], call.args[2], call.args[3]))
       IN  /\ raised = expected.exc
           /\ expected.exc = "none" => images["filtered"] = expected.val
           /\ (\A i \in 1..3 : call.args[i] = None)
                  => images["filtered"] = before.images["corrected"]

\* C14: the brightness step of correct_illumination is a saturating add: each
\* pixel of 'corrected' equals clamp(v + brightness_offset, 0, 255), where v is
\* the pixel of the normalized background-subtracted image; a sum below 0
\* yields 0.
C14_BrightnessSaturatingAdd ==
    ( /\ call.op = "correct_illumination"
      /\ raised = "none" )
    => LET original   == before.images["original"]
           background == GaussianBlur(original, call.args[1]).val
           normalized == Normalize(Subtract(original, background))
       IN  \A p \in Pos :
               images["corrected"].px[p[1]][p[2]] =
                   Saturate(normalized.px[p[1]][p[2]] + call.args[2].v)

\* The orchestrator's single stage transitions.
StageTransitions == {"correct_illumination", "apply_filters", "adjust_contrast", "count_dots"}

\* C15: a single orchestrator transition (correct_illumination, apply_filters,
\* adjust_contrast or count_dots) that raises leaves the whole pipeline state
\* unchanged: no stage entry, dot_count or centroids value is written.
C15_FailedTransitionLeavesStateUnchanged ==
    (call.op \in StageTransitions /\ raised # "none") => Self = before

\* C15 witness: count_dots raised on a pipeline whose 'contrast' stage holds an
\* image, after the component had returned its result.
C15_Witness ==
    /\ call.op = "count_dots"
    /\ raised = "ValueError"
    /\ Populated(before, "original")
    /\ Populated(before, "contrast")
    /\ call.args[2] \in {PyInt(4), PyInt(8)}
    /\ Self = before
====
